---- MODULE Spec2Model ----
(***************************************************************************)
(* Model of src/analyser.rs: the scope analyser LuaAnalyserVisitor that    *)
(* full_moon's Visitor drives over a Lua syntax tree.                       *)
(*                                                                         *)
(* The program state is the four fields of LuaAnalyserVisitor.  One action *)
(* is one visit event (one handler call of the Visitor impl).  The tree is *)
(* produced on the fly: `agenda` is what the depth-first traversal still   *)
(* has to visit, in document order.  Scope indices are the Rust indices    *)
(* (0-based); scope i is scopes[i + 1].                                    *)
(***************************************************************************)
EXTENDS Integers, Sequences, FiniteSets, TLC

\* ---------------------------------------------------------------- bounds
MaxNodes == 3        \* statements and non-literal expressions of the program

Names == {"x", "f"}  \* the identifiers of the program

None == <<>>         \* Option::None
Some(v) == <<v>>     \* Option::Some(v)
Unwrap(o) == o[1]

VARIABLES
    global_vars,     \* Vec<VariableDefinition>
    global_usages,   \* HashMap<String, Vec<Position>>
    scopes,          \* Vec<Scope>
    current_scope,   \* Option<usize>
    pc,              \* "run", "done" (from_ast returned), "panicked"
    agenda,          \* nodes still to visit, in document order
    stack,           \* the blocks that are open, outermost first
    pos,             \* source position of the next name token
    budget,          \* nodes the program may still contain
    asg,             \* log: every simple-name assignment target visited
    occ,             \* per name: reads and calls visited while not local
    last             \* the visit event that produced this state

vars == <<global_vars, global_usages, scopes, current_scope, pc, agenda,
          stack, pos, budget, asg, occ, last>>

\* ------------------------------------------------------------ tokens
\* A TokenReference is a token with the trivia (whitespace, comments) the
\* parser attached before and after it.  Text is a sequence of pieces: an
\* identifier, a whitespace piece or a comment.
Whitespace == {" ", "\n"}
Comment == "--c"

TokenReference(leading, token, trailing) ==
    [leading_trivia |-> leading, token |-> token, trailing_trivia |-> trailing]

Spaced(n) == TokenReference(<<" ">>, n, <<" ">>)
TrailCommented(n) == TokenReference(<<>>, n, <<" ", Comment, "\n">>)
LeadCommented(n) == TokenReference(<<Comment, "\n", " ">>, n, <<>>)

\* Display of Token: the token alone
token_to_string(tr) == <<tr.token>>

\* Display of TokenReference (and of Prefix::Name): trivia included
reference_to_string(tr) ==
    tr.leading_trivia \o <<tr.token>> \o tr.trailing_trivia

RECURSIVE trim_start(_)
trim_start(text) ==
    IF text # <<>> /\ Head(text) \in Whitespace THEN trim_start(Tail(text))
    ELSE text

RECURSIVE trim_end(_)
trim_end(text) ==
    IF text # <<>> /\ text[Len(text)] \in Whitespace
    THEN trim_end(SubSeq(text, 1, Len(text) - 1))
    ELSE text

trim(text) == trim_end(trim_start(text))

RECURSIVE to_owned(_)
to_owned(text) == IF text = <<>> THEN "" ELSE Head(text) \o to_owned(Tail(text))

\* token().to_string().trim().to_owned()
TokenName(tr) == to_owned(trim(token_to_string(tr)))

\* to_string().trim().to_owned() on a TokenReference or a Prefix
ReferenceName(tr) == to_owned(trim(reference_to_string(tr)))

\* ------------------------------------------------------- the analyser
Self ==
    [global_vars |-> global_vars, global_usages |-> global_usages,
     scopes |-> scopes, current_scope |-> current_scope, panicked |-> FALSE]

ScopeAt(sc, i) == sc[i + 1]

RECURSIVE is_local_walk(_, _, _)
is_local_walk(sc, scope_index, name) ==
    LET scope == ScopeAt(sc, scope_index) IN
    IF name \in scope.local_vars THEN TRUE
    ELSE IF scope.parent = None THEN FALSE
    ELSE is_local_walk(sc, Unwrap(scope.parent), name)

is_local_shallow(self, name) ==
    name \in ScopeAt(self.scopes, Unwrap(self.current_scope)).local_vars

is_local(self, name) ==
    is_local_walk(self.scopes, Unwrap(self.current_scope), name)

Merge(gv, name, position) ==
    LET i == CHOOSE k \in 1..Len(gv) :
                 gv[k].name = name /\ \A j \in 1..(k - 1) : gv[j].name # name
    IN  IF position = None THEN gv
        ELSE [gv EXCEPT ![i].assign_positions = Append(@, Unwrap(position))]

NewDef(name, position) ==
    [name |-> name, assign_positions |-> position]

add_global_var_nomerge(self, name, position) ==
    IF self.current_scope = None THEN [self EXCEPT !.panicked = TRUE]
    ELSE IF is_local(self, name) THEN self
    ELSE [self EXCEPT !.global_vars = Append(@, NewDef(name, position))]

add_global_var_firstonly(self, name, position) ==
    IF self.current_scope = None THEN [self EXCEPT !.panicked = TRUE]
    ELSE IF is_local(self, name) THEN self
    ELSE IF self.global_vars # <<>> /\ self.global_vars[1].name = name
         THEN [self EXCEPT !.global_vars = Merge(@, name, position)]
    ELSE [self EXCEPT !.global_vars = Append(@, NewDef(name, position))]

add_global_var_front(self, name, position) ==
    IF self.current_scope = None THEN [self EXCEPT !.panicked = TRUE]
    ELSE IF is_local(self, name) THEN self
    ELSE IF \E k \in 1..Len(self.global_vars) : self.global_vars[k].name = name
         THEN [self EXCEPT !.global_vars = Merge(@, name, position)]
    ELSE [self EXCEPT !.global_vars = <<NewDef(name, position)>> \o @]

add_global_var(self, name, position) ==
    IF self.current_scope = None THEN [self EXCEPT !.panicked = TRUE]
    ELSE IF is_local(self, name) THEN self
    ELSE IF \E k \in 1..Len(self.global_vars) : self.global_vars[k].name = name
         THEN [self EXCEPT !.global_vars = Merge(@, name, position)]
    ELSE [self EXCEPT !.global_vars = Append(@, NewDef(name, position))]

add_local_var_retract(self, name) ==
    IF self.current_scope = None THEN [self EXCEPT !.panicked = TRUE]
    ELSE [self EXCEPT
            !.scopes[Unwrap(self.current_scope) + 1].local_vars = @ \cup {name},
            !.global_vars = SelectSeq(@, LAMBDA e : e.name # name)]

add_local_var(self, name) ==
    IF self.current_scope = None THEN [self EXCEPT !.panicked = TRUE]
    ELSE [self EXCEPT
            !.scopes[Unwrap(self.current_scope) + 1].local_vars = @ \cup {name}]

add_global_usage_prepend(self, name, position) ==
    IF self.current_scope = None THEN [self EXCEPT !.panicked = TRUE]
    ELSE IF is_local(self, name) THEN self
    ELSE IF name \in DOMAIN self.global_usages
         THEN [self EXCEPT !.global_usages[name] = <<position>> \o @]
    ELSE [self EXCEPT !.global_usages = (name :> <<position>>) @@ @]

add_global_usage(self, name, position) ==
    IF self.current_scope = None THEN [self EXCEPT !.panicked = TRUE]
    ELSE IF is_local(self, name) THEN self
    ELSE IF name \in DOMAIN self.global_usages
         THEN [self EXCEPT !.global_usages[name] = Append(@, position)]
    ELSE [self EXCEPT !.global_usages = (name :> <<position>>) @@ @]

enter_scope_orphan(self) ==
    [self EXCEPT
        !.scopes = Append(@, [local_vars |-> {}, parent |-> None]),
        !.current_scope = Some(Len(self.scopes))]

enter_scope_nocursor(self) ==
    [self EXCEPT
        !.scopes = Append(@, [local_vars |-> {},
                              parent |-> self.current_scope])]

enter_scope(self) ==
    [self EXCEPT
        !.scopes = Append(@, [local_vars |-> {},
                              parent |-> self.current_scope]),
        !.current_scope = Some(Len(self.scopes))]

exit_scope_unset_root(self) ==
    IF self.current_scope = None THEN [self EXCEPT !.panicked = TRUE]
    ELSE IF Unwrap(self.current_scope) >= Len(self.scopes) THEN self
    ELSE [self EXCEPT
            !.current_scope =
                ScopeAt(self.scopes, Unwrap(self.current_scope)).parent]

exit_scope_stay(self) ==
    IF self.current_scope = None THEN [self EXCEPT !.panicked = TRUE]
    ELSE self

exit_scope(self) ==
    IF self.current_scope = None THEN [self EXCEPT !.panicked = TRUE]
    ELSE IF Unwrap(self.current_scope) >= Len(self.scopes) THEN self
    ELSE IF ScopeAt(self.scopes, Unwrap(self.current_scope)).parent = None
         THEN self
    ELSE [self EXCEPT
            !.current_scope =
                ScopeAt(self.scopes, Unwrap(self.current_scope)).parent]

\* ------------------------------------------------ the Visitor handlers
\* A Var of an assignment: [simple |-> BOOLEAN, token, pos]; simple is
\* Var::Name, otherwise Var::Expression (a field or index access on token).
RECURSIVE visit_assignment_all(_, _)
visit_assignment_all(self, variables) ==
    IF variables = <<>> THEN self
    ELSE LET var == Head(variables)
             next == IF self.current_scope = None
                          THEN [self EXCEPT !.panicked = TRUE]
                     ELSE IF ~is_local(self, TokenName(var.token))
                          THEN add_global_var(self, TokenName(var.token),
                                              Some(var.pos))
                     ELSE self
         IN  IF next.panicked THEN next
             ELSE visit_assignment_all(next, Tail(variables))

RECURSIVE visit_assignment(_, _)
visit_assignment(self, variables) ==
    IF variables = <<>> THEN self
    ELSE LET var == Head(variables)
             next == IF ~var.simple THEN self
                     ELSE IF self.current_scope = None
                          THEN [self EXCEPT !.panicked = TRUE]
                     ELSE IF ~is_local(self, TokenName(var.token))
                          THEN add_global_var(self, TokenName(var.token),
                                              Some(var.pos))
                     ELSE self
         IN  IF next.panicked THEN next
             ELSE visit_assignment(next, Tail(variables))

RECURSIVE visit_local_assignment(_, _)
visit_local_assignment(self, names) ==
    IF names = <<>> THEN self
    ELSE LET next == add_local_var(self, ReferenceName(Head(names)))
         IN  IF next.panicked THEN next
             ELSE visit_local_assignment(next, Tail(names))

visit_block(self) == enter_scope(self)

visit_block_end(self) == exit_scope(self)

\* A Parameter: [named |-> BOOLEAN, token]; named is Parameter::Name,
\* otherwise Parameter::Ellipsis.
add_parameters_none(self, parameters) == self

RECURSIVE add_parameters(_, _)
add_parameters(self, parameters) ==
    IF parameters = <<>> THEN self
    ELSE LET param == Head(parameters)
             next == IF param.named
                     THEN add_local_var(self, TokenName(param.token))
                     ELSE self
         IN  IF next.panicked THEN next
             ELSE add_parameters(next, Tail(parameters))

visit_function_declaration_define(self, fname, fpos, parameters) ==
    add_parameters(add_global_var(self, fname, Some(fpos)), parameters)

visit_function_declaration(self, fname, fpos, parameters) ==
    add_parameters(self, parameters)

visit_local_function_params_only(self, fname, parameters) ==
    add_parameters(self, parameters)

visit_local_function(self, fname, parameters) ==
    LET next == add_local_var(self, TokenName(fname))
    IN  IF next.panicked THEN next ELSE add_parameters(next, parameters)

\* An Expression: [kind, token, pos]; kind is "Name" (Expression::Var of
\* Var::Name), "VarExpression" (Expression::Var of Var::Expression),
\* "FunctionCall" (token is the call's Prefix::Name, pos its start position)
\* or "Other" (number, string, operator, parentheses, ...).
visit_expression(self, expr) ==
    CASE expr.kind = "Name" ->
            add_global_usage(self, TokenName(expr.token), expr.pos)
      [] expr.kind = "VarExpression" -> [self EXCEPT !.panicked = TRUE]
      [] expr.kind = "FunctionCall" ->
            add_global_usage(self, ReferenceName(expr.token), expr.pos)
      [] OTHER -> self

visit_function_call(self, prefix, position) ==
    IF position = None THEN self
    ELSE add_global_usage(self, ReferenceName(prefix), Unwrap(position))

\* ------------------------------------------------------ the traversal
\* Agenda items, in the order full_moon's derived Visit visits the nodes:
\*   "block"    a Block to enter (a function body; ps: the parameter names
\*              of the function it is the body of)
\*   "stmts"    the rest of the statement list of the innermost open block
\*   "blockend" the end of the innermost open block
\*   "expr"     an Expression (k = 1: it may have sub-expressions)
\*   "call"     the FunctionCall node inside an Expression::FunctionCall
\*              already visited (f: prefix, p: start position, k: arguments)
Item(t, f, ps, p, k) == [t |-> t, f |-> f, ps |-> ps, p |-> p, k |-> k]
NoToken == Spaced("")
BlockItem(ps) == Item("block", NoToken, ps, 0, 0)
StmtsItem == Item("stmts", NoToken, {}, 0, 0)
BlockEndItem == Item("blockend", NoToken, {}, 0, 0)
ExprItem(k) == Item("expr", NoToken, {}, 0, k)
CallItem(f, p, k) == Item("call", f, {}, p, k)

Args(k) == IF k = 0 THEN <<>> ELSE <<ExprItem(0)>>

Frame(scope, ps) ==
    [scope |-> scope, decl |-> {}, lfuncs |-> {}, params |-> ps]

Event(ev, names) == [ev |-> ev, names |-> names]

\* Var lists of an assignment: one or two targets, each a simple name or a
\* field access on a name.
Targets == [simple : BOOLEAN, name : Names]
TargetLists ==
    {<<a>> : a \in Targets}
        \cup {<<a, b>> : a \in Targets, b \in {t \in Targets : t.simple}}
WithPos(variables, p) ==
    [i \in DOMAIN variables |->
        [simple |-> variables[i].simple, token |-> Spaced(variables[i].name),
         pos |-> p + i - 1]]

\* Name lists of a `local` statement; a name may have a comment after it.
NameLists ==
    {<<Spaced(a)>> : a \in Names} \cup {<<TrailCommented(a)>> : a \in Names}
        \cup {<<Spaced("x"), Spaced("f")>>}

\* Prefixes of a call statement; a comment line may precede the statement.
Prefixes == {Spaced(a) : a \in Names} \cup {LeadCommented(a) : a \in Names}

\* Parameter lists: () and (p, ...)
ParameterLists ==
    {<<>>} \cup {<<[named |-> TRUE, token |-> Spaced(a)],
                   [named |-> FALSE, token |-> Spaced("...")]>> : a \in Names}
NamedParameters(parameters) ==
    {parameters[i].token.token :
        i \in {j \in DOMAIN parameters : parameters[j].named}}

SeqNames(names) == {names[i].token : i \in DOMAIN names}
SimpleNames(variables) ==
    {variables[i].token.token :
        i \in {j \in DOMAIN variables : variables[j].simple}}

Apply(s) ==
    /\ global_vars' = s.global_vars
    /\ global_usages' = s.global_usages
    /\ scopes' = s.scopes
    /\ current_scope' = s.current_scope
    /\ pc' = IF s.panicked THEN "panicked" ELSE pc

AtStatement ==
    /\ pc = "run"
    /\ agenda # <<>>
    /\ Head(agenda).t = "stmts"
    /\ budget > 0

Count(n) == IF is_local(Self, n) THEN occ ELSE [occ EXCEPT ![n] = @ + 1]

Init ==
    /\ global_vars = <<>>
    /\ global_usages = <<>>
    /\ scopes = <<>>
    /\ current_scope = None
    /\ pc = "run"
    /\ agenda = <<BlockItem({})>>
    /\ stack = <<>>
    /\ pos = 1
    /\ budget = MaxNodes
    /\ asg = <<>>
    /\ occ = [n \in Names |-> 0]
    /\ last = Event("new", {})

\* visit_block: the top-level block or a function body
VisitBlock ==
    /\ pc = "run"
    /\ agenda # <<>>
    /\ Head(agenda).t = "block"
    /\ Apply(visit_block(Self))
    /\ stack' = Append(stack, Frame(Len(scopes), Head(agenda).ps))
    /\ agenda' = <<StmtsItem, BlockEndItem>> \o Tail(agenda)
    /\ last' = Event("block", {})
    /\ UNCHANGED <<pos, budget, asg, occ>>

\* visit_block of the block of a `do ... end` statement
VisitDoBlock ==
    /\ AtStatement
    /\ Apply(visit_block(Self))
    /\ stack' = Append(stack, Frame(Len(scopes), {}))
    /\ agenda' = <<StmtsItem, BlockEndItem>> \o agenda
    /\ budget' = budget - 1
    /\ last' = Event("block", {})
    /\ UNCHANGED <<pos, asg, occ>>

\* visit_block_end: the statement list of the innermost block is over
VisitBlockEnd ==
    /\ pc = "run"
    /\ Len(agenda) >= 2
    /\ agenda[1].t = "stmts"
    /\ agenda[2].t = "blockend"
    /\ Apply(visit_block_end(Self))
    /\ stack' = SubSeq(stack, 1, Len(stack) - 1)
    /\ agenda' = Tail(Tail(agenda))
    /\ last' = Event("blockend", {})
    /\ UNCHANGED <<pos, budget, asg, occ>>

\* visit_assignment: `vars = expr`
VisitAssignment ==
    /\ AtStatement
    /\ \E tl \in TargetLists :
         LET variables == WithPos(tl, pos) IN
         /\ Apply(visit_assignment(Self, variables))
         /\ asg' = asg \o [i \in DOMAIN variables |->
                             [name |-> tl[i].name,
                              pos |-> variables[i].pos,
                              simple |-> tl[i].simple,
                              loc |-> is_local(Self, tl[i].name)]]
         /\ pos' = pos + Len(variables)
         /\ last' = Event("assign", SimpleNames(variables))
    /\ agenda' = <<ExprItem(1)>> \o agenda
    /\ budget' = budget - 1
    /\ UNCHANGED <<stack, occ>>

\* visit_local_assignment: `local names = expr`
VisitLocalAssignment ==
    /\ AtStatement
    /\ \E names \in NameLists :
         /\ Apply(visit_local_assignment(Self, names))
         /\ stack' = [stack EXCEPT ![Len(stack)].decl = @ \cup SeqNames(names)]
         /\ last' = Event("local", SeqNames(names))
    /\ agenda' = <<ExprItem(1)>> \o agenda
    /\ budget' = budget - 1
    /\ UNCHANGED <<pos, asg, occ>>

\* visit_function_declaration: `function fname(parameters) ... end`
VisitFunctionDeclaration ==
    /\ AtStatement
    /\ \E fname \in Names, parameters \in ParameterLists :
         /\ Apply(visit_function_declaration(Self, fname, pos, parameters))
         /\ agenda' = <<BlockItem(NamedParameters(parameters))>> \o agenda
         /\ last' = Event(IF is_local(Self, fname) THEN "fdecl_local"
                          ELSE "fdecl", {fname})
    /\ pos' = pos + 1
    /\ budget' = budget - 1
    /\ UNCHANGED <<stack, asg, occ>>

\* visit_local_function: `local function fname(parameters) ... end`
VisitLocalFunction ==
    /\ AtStatement
    /\ \E fname \in Names, parameters \in ParameterLists :
         /\ Apply(visit_local_function(Self, Spaced(fname), parameters))
         /\ agenda' = <<BlockItem(NamedParameters(parameters))>> \o agenda
         /\ stack' = [stack EXCEPT ![Len(stack)].lfuncs = @ \cup {fname}]
         /\ last' = Event("lfunc", {fname})
    /\ budget' = budget - 1
    /\ UNCHANGED <<pos, asg, occ>>

\* visit_function_call of a call statement: `f()` or `f(expr)`
VisitFunctionCallStmt ==
    /\ AtStatement
    /\ \E f \in Prefixes, k \in {0, 1} :
         /\ Apply(visit_function_call(Self, f, Some(pos)))
         /\ agenda' = Args(k) \o agenda
         /\ occ' = Count(f.token)
         /\ last' = Event("callstmt", {f.token})
    /\ pos' = pos + 1
    /\ budget' = budget - 1
    /\ UNCHANGED <<stack, asg>>

\* visit_expression
VisitExpression ==
    /\ pc = "run"
    /\ agenda # <<>>
    /\ Head(agenda).t = "expr"
    /\ \/ \* a literal
          /\ Apply(visit_expression(Self, [kind |-> "Other", token |-> NoToken,
                                           pos |-> pos]))
          /\ agenda' = Tail(agenda)
          /\ last' = Event("literal", {})
          /\ UNCHANGED <<pos, budget, occ>>
       \/ \* an operator or parentheses: the operand is visited next
          /\ budget > 0
          /\ Head(agenda).k = 1
          /\ Apply(visit_expression(Self, [kind |-> "Other", token |-> NoToken,
                                           pos |-> pos]))
          /\ agenda' = <<ExprItem(0)>> \o Tail(agenda)
          /\ last' = Event("operator", {})
          /\ budget' = budget - 1
          /\ UNCHANGED <<pos, occ>>
       \/ \* a bare name
          /\ budget > 0
          /\ \E n \in Names :
              /\ Apply(visit_expression(Self, [kind |-> "Name", token |-> Spaced(n),
                                               pos |-> pos]))
              /\ occ' = Count(n)
              /\ last' = Event("read", {n})
          /\ agenda' = Tail(agenda)
          /\ pos' = pos + 1
          /\ budget' = budget - 1
       \/ \* a field or index access, `n.x`
          /\ budget > 0
          /\ \E n \in Names :
              /\ Apply(visit_expression(Self, [kind |-> "VarExpression",
                                               token |-> Spaced(n),
                                               pos |-> pos]))
              /\ last' = Event("field", {n})
          /\ agenda' = Tail(agenda)
          /\ pos' = pos + 1
          /\ budget' = budget - 1
          /\ UNCHANGED occ
       \/ \* a call `f()` or `f(expr)`: its FunctionCall node is visited next
          /\ budget > 0
          /\ \E f \in Names, k \in 0..Head(agenda).k :
              /\ Apply(visit_expression(Self, [kind |-> "FunctionCall",
                                               token |-> Spaced(f),
                                               pos |-> pos]))
              /\ agenda' = <<CallItem(Spaced(f), pos, k)>> \o Tail(agenda)
              /\ occ' = Count(f)
              /\ last' = Event("callexpr", {f})
          /\ pos' = pos + 1
          /\ budget' = budget - 1
    /\ UNCHANGED <<stack, asg>>

\* visit_function_call of the FunctionCall inside an expression
VisitFunctionCallExpr ==
    /\ pc = "run"
    /\ agenda # <<>>
    /\ Head(agenda).t = "call"
    /\ Apply(visit_function_call(Self, Head(agenda).f, Some(Head(agenda).p)))
    /\ agenda' = Args(Head(agenda).k) \o Tail(agenda)
    /\ last' = Event("call", {Head(agenda).f.token})
    /\ UNCHANGED <<stack, pos, budget, asg, occ>>

\* from_ast returns the LuaAnalysis
Finish ==
    /\ pc = "run"
    /\ agenda = <<>>
    /\ pc' = "done"
    /\ last' = Event("return", {})
    /\ UNCHANGED <<global_vars, global_usages, scopes, current_scope, agenda,
                   stack, pos, budget, asg, occ>>

Next ==
    \/ VisitBlock
    \/ VisitDoBlock
    \/ VisitBlockEnd
    \/ VisitAssignment
    \/ VisitLocalAssignment
    \/ VisitFunctionDeclaration
    \/ VisitLocalFunction
    \/ VisitFunctionCallStmt
    \/ VisitExpression
    \/ VisitFunctionCallExpr
    \/ Finish

Spec == Init /\ [][Next]_vars

\* ------------------------------------- the operations, called directly
\* The methods of LuaAnalyserVisitor called in any order on a new visitor,
\* as code of the module (its tests) can call them.
\* At most MaxNodes scopes are entered and MaxNodes other calls made.
Call(s, ev, names) ==
    /\ pc = "run"
    /\ budget > 0
    /\ Apply(s)
    /\ budget' = budget - 1
    /\ last' = Event(ev, names)
    /\ UNCHANGED <<agenda, stack, asg, occ>>

CallEnterScope ==
    /\ pc = "run"
    /\ Len(scopes) < MaxNodes
    /\ Apply(enter_scope(Self))
    /\ last' = Event("enter_scope", {})
    /\ UNCHANGED <<agenda, stack, asg, occ, budget, pos>>

CallExitScope ==
    /\ Call(exit_scope(Self), "exit_scope", {})
    /\ UNCHANGED pos

CallAddLocalVar ==
    /\ \E n \in Names : Call(add_local_var(Self, n), "add_local_var", {n})
    /\ UNCHANGED pos

CallAddGlobalVar ==
    /\ \E n \in Names :
         Call(add_global_var(Self, n, Some(pos)), "add_global_var", {n})
    /\ pos' = pos + 1

CallAddGlobalUsage ==
    /\ \E n \in Names :
         Call(add_global_usage(Self, n, pos), "add_global_usage", {n})
    /\ pos' = pos + 1

NextOps ==
    \/ CallEnterScope
    \/ CallExitScope
    \/ CallAddLocalVar
    \/ CallAddGlobalVar
    \/ CallAddGlobalUsage

SpecOps == Init /\ [][NextOps]_vars

\* ------------------------------------------------------------ claims
DefEntries(gv, n) == SelectSeq(gv, LAMBDA e : e.name = n)
Usages(gu, n) == IF n \in DOMAIN gu THEN gu[n] ELSE <<>>
Range(q) == {q[i] : i \in DOMAIN q}

AsgOf(n) == SelectSeq(asg, LAMBDA a : a.simple /\ a.name = n)
Positions(log) == [i \in DOMAIN log |-> log[i].pos]
NeverLocal(log) == \A i \in DOMAIN log : ~log[i].loc

NothingRecorded(n) ==
    /\ DefEntries(global_vars', n) = DefEntries(global_vars, n)
    /\ Usages(global_usages', n) = Usages(global_usages, n)

\* C1: when the traversal is over, a simple name that was the target of k >= 1
\* assignments, none of them visited while the name was local, has exactly one
\* definition entry, and the entry's positions are those of the k assignments
\* in the order they were visited.
C1_MergeByName ==
    pc = "done" =>
        \A n \in Names :
            (AsgOf(n) # <<>> /\ NeverLocal(AsgOf(n))) =>
                DefEntries(global_vars, n) =
                    <<[name |-> n, assign_positions |-> Positions(AsgOf(n))]>>

C1_Witness ==
    /\ pc = "done"
    /\ \E n \in Names : Len(AsgOf(n)) >= 3 /\ NeverLocal(AsgOf(n))

\* C2: in every state the names of the definition entries are pairwise
\* distinct.
C2_DistinctNames ==
    \A i, j \in DOMAIN global_vars :
        global_vars[i].name = global_vars[j].name => i = j

C2_Witness ==
    /\ Len(global_vars) >= 2
    /\ Len(global_vars[2].assign_positions) >= 2

\* C3: while a name is declared by a `local` statement of a block that is
\* still open, no visit event adds a definition entry, a definition position
\* or a usage position for it, in that block or in a block nested in it.
\* (The declaring statement may carry a comment after the name.)
LocalDeclared(n) == \E k \in DOMAIN stack : n \in stack[k].decl

C3_Shadowing ==
    [][\A n \in Names : LocalDeclared(n) => NothingRecorded(n)]_vars

\* C4: a name that is in the local set of an exited non-root block and in the
\* local set of no block that is still open is not local, and an assignment
\* to it visited then records its position in a definition entry.
OpenScopes == {0} \cup {stack[k].scope : k \in DOMAIN stack}

LocalNames == UNION {scopes[i].local_vars : i \in DOMAIN scopes}

LocalOnlyInExited(n) ==
    /\ \E i \in 1..(Len(scopes) - 1) :
           i \notin OpenScopes /\ n \in ScopeAt(scopes, i).local_vars
    /\ \A i \in OpenScopes : n \notin ScopeAt(scopes, i).local_vars

Recorded(gv, a) ==
    \E k \in DOMAIN gv :
        gv[k].name = a.name /\ a.pos \in Range(gv[k].assign_positions)

C4_ScopeRestoration ==
    [][\A n \in LocalNames :
          LocalOnlyInExited(n) =>
              /\ ~is_local(Self, n)
              /\ \A i \in (Len(asg) + 1)..Len(asg') :
                    (asg'[i].simple /\ asg'[i].name = n) =>
                        Recorded(global_vars', asg'[i])]_vars

C4_Witness ==
    /\ last.ev = "assign"
    /\ \E n \in last.names :
           LocalOnlyInExited(n) /\ DefEntries(global_vars, n) # <<>>

\* C5: no visit event panics: the traversal is never aborted.
C5_NoPanic == pc # "panicked"

\* C6: every read of a bare name and every call of a bare-name callee that is
\* visited while the name is not local contributes exactly one usage position
\* (checked whenever no call is half visited).
C6_OneUsagePerCall ==
    (agenda = <<>> \/ Head(agenda).t # "call") =>
        \A n \in Names : Len(Usages(global_usages, n)) = occ[n]

\* C7 as stated: after a function declaration whose name is not local, the
\* definition list has an entry for the function name.
C7_DeclarationDefines ==
    last.ev = "fdecl" =>
        \A f \in last.names : DefEntries(global_vars, f) # <<>>

\* C7 amended: a function declaration whose name is not local leaves the
\* definition list unchanged; the name is not an assignment target.
C7_DeclarationDefinesNothing ==
    [][last'.ev = "fdecl" => global_vars' = global_vars]_vars

C7_Witness ==
    /\ last.ev = "fdecl"
    /\ \A f \in last.names : DefEntries(global_vars, f) = <<>>
    /\ \E k \in DOMAIN scopes : scopes[k].local_vars # {}

\* C8: the local set of an open block holds the parameters of the function
\* the block is the body of, and besides them only names declared in that
\* block by `local` or `local function`.
C8_ParametersInOwnScope ==
    \A k \in DOMAIN stack :
        LET locals == ScopeAt(scopes, stack[k].scope).local_vars IN
        /\ stack[k].params \subseteq locals
        /\ locals \subseteq stack[k].decl \cup stack[k].lfuncs
                                \cup stack[k].params

\* C9: while the body of a function with parameter p is open, no visit event
\* adds a definition entry, a definition position or a usage position for p.
IsParameter(n) == \E k \in DOMAIN stack : n \in stack[k].params

C9_ParametersAreLocal ==
    [][\A n \in Names : IsParameter(n) => NothingRecorded(n)]_vars

C9_Witness ==
    /\ last.ev \in {"assign", "read"}
    /\ \E n \in last.names, k \in DOMAIN stack :
           k < Len(stack) /\ n \in stack[k].params

\* C10: `local function f` puts f into the local set of the block it is in
\* and leaves the definition list unchanged; while that block is open no
\* visit event adds a definition or a usage position for f.
IsLocalFunction(n) == \E k \in DOMAIN stack : n \in stack[k].lfuncs

C10_LocalFunctionName ==
    [][/\ \A n \in Names : IsLocalFunction(n) => NothingRecorded(n)
       /\ last'.ev = "lfunc" =>
            /\ global_vars' = global_vars
            /\ last'.names \subseteq
                 ScopeAt(scopes', stack'[Len(stack')].scope).local_vars]_vars

C10_Witness ==
    /\ last.ev \in {"callstmt", "call"}
    /\ \E n \in last.names : IsLocalFunction(n)
    /\ global_usages = <<>>

\* C11: visiting an assignment never records the position of a compound
\* target, changes the entries of its receiver name only if a simple target of
\* the same statement has that name, and adds no usage position; the simple
\* targets of the statement that are not local are recorded.
NewTargets == (Len(asg) + 1)..Len(asg')

C11_CompoundTargetsSkipped ==
    [][last'.ev = "assign" =>
         /\ global_usages' = global_usages
         /\ \A i \in NewTargets :
              LET a == asg'[i] IN
              /\ ~a.simple =>
                   /\ ~Recorded(global_vars', a)
                   /\ (\A j \in NewTargets :
                          asg'[j].simple => asg'[j].name # a.name) =>
                        DefEntries(global_vars', a.name) =
                            DefEntries(global_vars, a.name)
              /\ (a.simple /\ ~a.loc) => Recorded(global_vars', a)]_vars

C11_Witness ==
    /\ last.ev = "assign"
    /\ Len(asg) >= 2
    /\ ~asg[Len(asg) - 1].simple
    /\ asg[Len(asg)].simple
    /\ asg[Len(asg)].name # asg[Len(asg) - 1].name
    /\ Recorded(global_vars, asg[Len(asg)])
    /\ DefEntries(global_vars, asg[Len(asg) - 1].name) = <<>>

\* C12: the exit event of a block visited while the active scope has no
\* parent does not panic and changes neither the cursor, nor the arena, nor
\* the results; when the traversal is over the root scope is still active.
AtRoot ==
    /\ current_scope # None
    /\ Unwrap(current_scope) < Len(scopes)
    /\ ScopeAt(scopes, Unwrap(current_scope)).parent = None

C12_RootExitIsNoOp ==
    [][/\ (last'.ev = "blockend" /\ AtRoot) =>
            /\ pc' = "run"
            /\ UNCHANGED <<global_vars, global_usages, scopes, current_scope>>
       /\ pc' = "done" => current_scope' = Some(0)]_vars

C12_Witness ==
    /\ pc = "done"
    /\ last.ev = "return"
    /\ Len(scopes) >= 2
    /\ current_scope = Some(0)
    /\ ScopeAt(scopes, 0).local_vars # {}

\* C13: exit_scope called while no scope is active does not panic and leaves
\* the state as it was.
C13_ExitWithoutScopeRecovers ==
    [][(last'.ev = "exit_scope" /\ current_scope = None) =>
          /\ pc' = "run"
          /\ UNCHANGED <<global_vars, global_usages, scopes,
                         current_scope>>]_vars

\* C14: a usage position is stored under a name only while the name is not
\* local, and every read or call of a bare name appends one position to that
\* name's usage list exactly when the name is not local.
C14_UsageIffNotLocal ==
    [][\A n \in Names :
          /\ Usages(global_usages', n) # Usages(global_usages, n) =>
                ~is_local(Self, n)
          /\ (last'.ev \in {"read", "callstmt", "callexpr"}
                /\ n \in last'.names) =>
                IF is_local(Self, n)
                THEN Usages(global_usages', n) = Usages(global_usages, n)
                ELSE Usages(global_usages', n) =
                         Append(Usages(global_usages, n), pos)]_vars

\* C15: visiting an assignment leaves every usage list unchanged; visiting a
\* read of a name leaves the definition list and the usage lists of the other
\* names unchanged; the positions of every definition entry and of every
\* usage list are in the order the occurrences were visited.
InVisitOrder(q) == \A i, j \in DOMAIN q : i < j => q[i] <= q[j]

C15_Independence ==
    [][/\ last'.ev = "assign" => global_usages' = global_usages
       /\ last'.ev = "read" =>
            /\ global_vars' = global_vars
            /\ \A k \in DOMAIN global_usages' :
                  k \notin last'.names =>
                      k \in DOMAIN global_usages
                          /\ global_usages'[k] = global_usages[k]
       /\ \A k \in DOMAIN global_vars' :
              InVisitOrder(global_vars'[k].assign_positions)
       /\ \A k \in DOMAIN global_usages' :
              InVisitOrder(global_usages'[k])]_vars

C15_Witness ==
    \E n \in Names :
        /\ DefEntries(global_vars, n) # <<>>
        /\ Len(Usages(global_usages, n)) >= 2
        /\ Usages(global_usages, n)[1] < Usages(global_usages, n)[2]

\* C16: whenever a scope is active, is_local(name) is true exactly when name
\* is in the local set of the active scope or of a scope reachable from it
\* through parent links.
RECURSIVE Reachable(_)
Reachable(k) ==
    IF k = 0 THEN {Unwrap(current_scope)}
    ELSE LET r == Reachable(k - 1) IN
         r \cup {Unwrap(ScopeAt(scopes, i).parent) :
                    i \in {j \in r : ScopeAt(scopes, j).parent # None}}

Chain == Reachable(Len(scopes))

C16_IsLocalIsChainMembership ==
    current_scope # None =>
        \A n \in Names \cup LocalNames :
            is_local(Self, n) <=>
                \E i \in Chain : n \in ScopeAt(scopes, i).local_vars

C16_Witness ==
    /\ current_scope # None
    /\ Cardinality(Chain) >= 2
    /\ \E n \in LocalNames :
           /\ is_local(Self, n)
           /\ n \notin ScopeAt(scopes, Unwrap(current_scope)).local_vars
    /\ \E n \in LocalNames : ~is_local(Self, n)

\* C17: after every step the names of the definition entries, in list order,
\* are the names of the recorded assignments (simple target, not local when
\* visited) in the order of their first visit, and an entry that existed
\* before the step keeps its index.
RECURSIVE FirstOccurrences(_)
FirstOccurrences(q) ==
    IF q = <<>> THEN <<>>
    ELSE LET h == FirstOccurrences(SubSeq(q, 1, Len(q) - 1))
             x == q[Len(q)]
         IN  IF x \in Range(h) THEN h ELSE Append(h, x)

RecordedNames(log) ==
    LET r == SelectSeq(log, LAMBDA a : a.simple /\ ~a.loc)
    IN  [i \in DOMAIN r |-> r[i].name]

EntryNames(gv) == [k \in DOMAIN gv |-> gv[k].name]

C17_OrderedByFirstOccurrence ==
    [][/\ EntryNames(global_vars') = FirstOccurrences(RecordedNames(asg'))
       /\ \A k \in DOMAIN global_vars :
            /\ k \in DOMAIN global_vars'
            /\ global_vars'[k].name = global_vars[k].name]_vars

C17_Witness ==
    /\ Len(global_vars) >= 2
    /\ \E p \in Range(global_vars[1].assign_positions) :
           p > global_vars[2].assign_positions[1]

\* C18: entering a block appends an empty scope whose parent is the scope
\* active before the step and makes it active; no step changes a recorded
\* parent; leaving a block makes active the scope that was active when the
\* block was entered, when there was one (the parent recorded for the block's
\* scope); and while a
\* block is open no step changes the local set of the scope that was active
\* when it was entered or of an ancestor of that scope.
RECURSIVE Up(_, _)
Up(i, k) ==
    IF k = 0 \/ ScopeAt(scopes, i).parent = None THEN {}
    ELSE LET p == Unwrap(ScopeAt(scopes, i).parent)
         IN  {p} \cup Up(p, k - 1)

Ancestors(i) == Up(i, Len(scopes))

C18_BalancedScopes ==
    [][/\ last'.ev = "block" =>
            /\ scopes' = Append(scopes, [local_vars |-> {},
                                         parent |-> current_scope])
            /\ current_scope' = Some(Len(scopes))
       /\ \A i \in DOMAIN scopes :
            /\ i \in DOMAIN scopes'
            /\ scopes'[i].parent = scopes[i].parent
       /\ (/\ last'.ev = "blockend"
           /\ stack # <<>>
           /\ ScopeAt(scopes, stack[Len(stack)].scope).parent # None) =>
            current_scope' = ScopeAt(scopes, stack[Len(stack)].scope).parent
       /\ \A k \in DOMAIN stack :
            \A j \in Ancestors(stack[k].scope) :
                ScopeAt(scopes', j).local_vars = ScopeAt(scopes, j).local_vars
      ]_vars

C18_Witness ==
    /\ last.ev = "blockend"
    /\ Len(scopes) >= 3
    /\ current_scope = Some(1)
    /\ scopes[2].local_vars # {}
    /\ scopes[3].local_vars # {}
    /\ scopes[3].local_vars \cap scopes[2].local_vars = {}

\* C19: once the arena is not empty, the cursor is the index of a scope of the
\* arena, the parent of a scope is absent for index 0 only and otherwise the
\* index of an earlier scope, and the walk of is_local from the cursor visits
\* at most as many scopes as the arena holds.
RECURSIVE WalkLength(_, _)
WalkLength(i, fuel) ==
    IF fuel = 0 THEN 0
    ELSE IF ScopeAt(scopes, i).parent = None THEN 1
    ELSE 1 + WalkLength(Unwrap(ScopeAt(scopes, i).parent), fuel - 1)

C19_ArenaWellFormed ==
    scopes # <<>> =>
        /\ current_scope # None
        /\ Unwrap(current_scope) \in 0..(Len(scopes) - 1)
        /\ \A i \in 0..(Len(scopes) - 1) :
             /\ (ScopeAt(scopes, i).parent = None) <=> (i = 0)
             /\ ScopeAt(scopes, i).parent # None =>
                  Unwrap(ScopeAt(scopes, i).parent) \in 0..(i - 1)
        /\ WalkLength(Unwrap(current_scope), Len(scopes) + 1) <= Len(scopes)

C19_Witness ==
    /\ Len(scopes) >= 3
    /\ current_scope = Some(2)
    /\ scopes[3].parent = Some(0)
    /\ WalkLength(2, Len(scopes) + 1) = 2

\* C20: every step keeps each definition entry at its index with its name,
\* keeps the entry's positions as a prefix of its new positions, and keeps
\* each name's usage positions as a prefix of its new usage positions; so
\* what was recorded for a name before it is declared local stays recorded.
IsPrefix(p, q) == Len(p) <= Len(q) /\ SubSeq(q, 1, Len(p)) = p

C20_AppendOnly ==
    [][/\ \A k \in DOMAIN global_vars :
            /\ k \in DOMAIN global_vars'
            /\ global_vars'[k].name = global_vars[k].name
            /\ IsPrefix(global_vars[k].assign_positions,
                        global_vars'[k].assign_positions)
       /\ \A n \in DOMAIN global_usages :
            /\ n \in DOMAIN global_usages'
            /\ IsPrefix(global_usages[n], global_usages'[n])]_vars

C20_Witness ==
    /\ last.ev \in {"local", "lfunc", "fdecl"}
    /\ \E n \in last.names :
           /\ is_local(Self, n)
           /\ DefEntries(global_vars, n) # <<>>
           /\ Usages(global_usages, n) # <<>>

====
